---- MODULE Spec2Model ----
(***************************************************************************)
(* A model of rink's evaluation core (src/eval.rs): the Value operators,   *)
(* Context::lookup, Context::eval, Context::eval_outer and Context::load.  *)
(*                                                                         *)
(* Names are sequences of one-character strings, so that ends_with,        *)
(* starts_with and slicing are what they are in the source.  A rational    *)
(* (gmp Mpq) is a record [num, den] in lowest terms with den > 0.  A unit  *)
(* vector (number::Unit, a BTreeMap from dimension to exponent) is a set   *)
(* of <<dimension, exponent>> pairs with no zero exponent.                 *)
(***************************************************************************)
EXTENDS Integers, Sequences, FiniteSets, TLC

VARIABLES
    dimensions,   \* Context.dimensions : Vec<Rc<String>>
    units,        \* Context.units      : HashMap<String, Number>
    aliases,      \* Context.aliases    : HashMap<Unit, String>
    reverse,      \* Context.reverse    : HashMap<Unit, String>
    prefixes,     \* Context.prefixes   : Vec<(String, Number)>
    definitions,  \* Context.definitions: HashMap<String, Expr>
    clock,        \* the host clock read by date::now()
    defs,         \* the Defs handed to Context::load
    input,        \* Resolver.input     : HashMap<Name, Rc<Def>>
    order,        \* the iteration order of Resolver.input in this load
    sorted,       \* Resolver.sorted    : Vec<Name>
    unmarked,     \* Resolver.unmarked  : HashSet<Name>
    temp_marks,   \* Resolver.temp_marks: HashSet<Name>
    stack,        \* the active Resolver::visit calls, innermost last
    udefs,        \* the entries the interpretation loop has still to take
    warnings,     \* the lines load has printed
    round,        \* which load of the same definitions this is (1 or 2)
    first,        \* the tables the first load built
    pc,           \* where the program is
    query,        \* the input of the last query
    result        \* what the last query returned

ctx == <<dimensions, units, aliases, reverse, prefixes, definitions>>
resolver == <<input, order, sorted, unmarked, temp_marks, stack, udefs>>
vars == <<dimensions, units, aliases, reverse, prefixes, definitions, clock,
          defs, input, order, sorted, unmarked, temp_marks, stack, udefs,
          warnings, round, first, pc, query, result>>

----------------------------------------------------------------------------
(* Bounds of the model.                                                    *)

\* the largest integer literal of an expression
MaxConst == 2
\* the largest number of factors in a product
MaxMulArgs == 2
\* timestamps representable by DateTime are -MaxTime..MaxTime
MaxTime == 3

----------------------------------------------------------------------------
(* Option and Result.                                                      *)

None == [tag |-> "None"]
Some(v) == [tag |-> "Some", val |-> v]
Ok(v) == [tag |-> "Ok", val |-> v]
Err(e) == [tag |-> "Err", err |-> e]
\* a host panic (unwrap or expect on a failure, an out-of-range index)
Panic(m) == [tag |-> "Panic", msg |-> m]

----------------------------------------------------------------------------
(* Rationals: gmp::mpq::Mpq.                                               *)

Abs(x) == IF x < 0 THEN -x ELSE x

RECURSIVE GCD(_, _)
GCD(a, b) == IF b = 0 THEN a ELSE GCD(b, a % b)

\* Mpq::ratio followed by canonicalisation; d # 0
Ratio(n, d) ==
    LET g == GCD(Abs(n), Abs(d))
        s == IF d < 0 THEN -1 ELSE 1
    IN  [num |-> (s * n) \div g, den |-> (s * d) \div g]

MpqOne == Ratio(1, 1)
MpqZero == Ratio(0, 1)
MpqAdd(a, b) == Ratio(a.num * b.den + b.num * a.den, a.den * b.den)
MpqSub(a, b) == Ratio(a.num * b.den - b.num * a.den, a.den * b.den)
MpqMul(a, b) == Ratio(a.num * b.num, a.den * b.den)
\* b # 0
MpqDiv(a, b) == Ratio(a.num * b.den, a.den * b.num)
MpqNeg(a) == Ratio(-a.num, a.den)
\* Mpz / Mpz truncates towards zero
MpzDiv(n, d) == IF n >= 0 THEN n \div d ELSE -((-n) \div d)

----------------------------------------------------------------------------
(* Unit vectors and dimensioned numbers: number::Unit and number::Number.  *)

UnitDims(u) == {p[1] : p \in u}
UnitPow(u, d) == IF \E p \in u : p[1] = d
                 THEN (CHOOSE p \in u : p[1] = d)[2] ELSE 0
\* btree_merge with |a, b| if a + b != 0 { Some(a + b) } else { None }
UnitMerge(a, b) ==
    {p \in {<<d, UnitPow(a, d) + UnitPow(b, d)>> : d \in UnitDims(a) \cup UnitDims(b)} :
        p[2] # 0}
UnitScale(u, k) == {p \in {<<q[1], q[2] * k>> : q \in u} : p[2] # 0}
UnitInvert(u) == UnitScale(u, -1)
Dimensionless == {}

Number(q, u) == [mag |-> q, unit |-> u]
NumberOne == Number(MpqOne, Dimensionless)
\* Number::one_unit
OneUnit(dim) == Number(MpqOne, {<<dim, 1>>})

\* &Number + &Number : defined iff both operands share the unit vector
NumAdd(a, b) == IF a.unit = b.unit
                THEN Some(Number(MpqAdd(a.mag, b.mag), a.unit)) ELSE None
\* &Number - &Number
NumSub(a, b) == IF a.unit = b.unit
                THEN Some(Number(MpqSub(a.mag, b.mag), a.unit)) ELSE None
\* -&Number
NumNeg(a) == Some(Number(MpqNeg(a.mag), a.unit))
\* &Number * &Number
NumMul(a, b) == Some(Number(MpqMul(a.mag, b.mag), UnitMerge(a.unit, b.unit)))
\* &Number / &Number : fails when the divisor is zero
NumDiv(a, b) == IF b.mag.num = 0 THEN None
                ELSE Some(Number(MpqDiv(a.mag, b.mag),
                                 UnitMerge(a.unit, UnitInvert(b.unit))))
RECURSIVE MpqPow(_, _)
\* q^k for an integer k; q # 0 when k < 0
MpqPow(q, k) ==
    IF k = 0 THEN MpqOne
    ELSE IF k < 0 THEN MpqPow(MpqDiv(MpqOne, q), 0 - k)
    ELSE MpqMul(q, MpqPow(q, k - 1))
\* Number::pow: the exponent is a dimensionless integer; (q^k, k * U)
NumPow(a, b) ==
    IF b.unit # Dimensionless THEN Err([msg |-> "Exponent must be dimensionless"])
    ELSE IF b.mag.den # 1 THEN Err([msg |-> "Exponent must be an integer"])
    ELSE Ok(Number(MpqPow(a.mag, b.mag.num), UnitScale(a.unit, b.mag.num)))
\* the largest r with r * r <= n, for n >= 0
ISqrt(n) == CHOOSE r \in 0..n : r * r <= n /\ (r + 1) * (r + 1) > n
\* Number::root(2): every exponent is even; the integer square root of the
\* magnitude with halved exponents (magnitude >= 0)
NumRoot2(a) ==
    IF \A p \in a.unit : p[2] % 2 = 0
    THEN Some(Number(Ratio(ISqrt(a.mag.num), ISqrt(a.mag.den)),
                     {<<p[1], p[2] \div 2>> : p \in a.unit}))
    ELSE None
\* Number::invert
NumInvert(a) == Number(MpqDiv(MpqOne, a.mag), UnitInvert(a.unit))

\* rendering of a Number or a DateTime (Show::show)
Show(v) == [shown |-> v]

----------------------------------------------------------------------------
(* Value and the date bridge.                                              *)

NumberV(n) == [tag |-> "Number", num |-> n]
DateTimeV(t) == [tag |-> "DateTime", at |-> t]
\* a Result that is Ok(Value::Number(_)), Ok(Value::DateTime(_))
IsNumber(r) == r.tag = "Ok" /\ r.val.tag = "Number"
IsDate(r) == r.tag = "Ok" /\ r.val.tag = "DateTime"

\* the dimension date::to_duration expects: that of "second"
SecondDim == <<"s">>
SecondUnit == {<<SecondDim, 1>>}

\* date::to_duration: the number must be in seconds
to_duration(n) ==
    IF n.unit = SecondUnit THEN Ok(n.mag)
    ELSE Err([msg |-> "Expected seconds"])
\* date::from_duration
from_duration(d) == Ok(Number(d, SecondUnit))
\* DateTime::checked_add / checked_sub of a duration (whole seconds here)
checked_move(t, d) ==
    LET u == t + MpzDiv(d.num, d.den)
    IN  IF u \in -MaxTime..MaxTime THEN Some(u) ELSE None

OutOfRange == [msg |-> "Implementation error: value is out of range representable by datetime"]
NotDefined == [msg |-> "Operation is not defined"]

\* Option::ok_or(e).map(Value::Number)
OkOrNumber(o, e) == IF o.tag = "Some" THEN Ok(NumberV(o.val)) ELSE Err(e)
OkOrDate(o, e) == IF o.tag = "Some" THEN Ok(DateTimeV(o.val)) ELSE Err(e)

\* Value::pow
ValuePow(l, r) ==
    IF l.tag = "Number" /\ r.tag = "Number"
    THEN (IF NumPow(l.num, r.num).tag = "Ok"
          THEN Ok(NumberV(NumPow(l.num, r.num).val)) ELSE NumPow(l.num, r.num))
    ELSE Err(NotDefined)

\* impl Add for &Value
ValueAdd(l, r) ==
    CASE l.tag = "Number" /\ r.tag = "Number" ->
            OkOrNumber(NumAdd(l.num, r.num),
                [msg |-> "Addition of units with mismatched units is not meaningful"])
      [] l.tag = "DateTime" /\ r.tag = "Number" ->
            LET d == to_duration(r.num)
            IN  IF d.tag = "Err" THEN d
                ELSE OkOrDate(checked_move(l.at, d.val), OutOfRange)
      [] l.tag = "Number" /\ r.tag = "DateTime" ->
            LET d == to_duration(l.num)
            IN  IF d.tag = "Err" THEN d
                ELSE OkOrDate(checked_move(r.at, d.val), OutOfRange)
      [] OTHER -> Err(NotDefined)

\* impl Sub for &Value
ValueSub(l, r) ==
    CASE l.tag = "Number" /\ r.tag = "Number" ->
            OkOrNumber(NumSub(l.num, r.num),
                [msg |-> "Subtraction of units with mismatched units is not meaningful"])
      [] l.tag = "DateTime" /\ r.tag = "Number" ->
            LET d == to_duration(r.num)
            IN  IF d.tag = "Err" THEN d
                ELSE OkOrDate(checked_move(l.at, MpqNeg(d.val)), OutOfRange)
      [] l.tag = "Number" /\ r.tag = "DateTime" ->
            LET d == to_duration(l.num)
            IN  IF d.tag = "Err" THEN d
                ELSE OkOrDate(checked_move(r.at, MpqNeg(d.val)), OutOfRange)
      [] OTHER ->
            LET n == from_duration(Ratio(l.at - r.at, 1))
            IN  Ok(NumberV(n.val))

\* impl Neg for &Value
ValueNeg(v) ==
    IF v.tag = "Number"
    THEN OkOrNumber(NumNeg(v.num), [msg |-> "Bug: Negation should not fail"])
    ELSE Err(NotDefined)

\* impl Mul for &Value
ValueMul(l, r) ==
    IF l.tag = "Number" /\ r.tag = "Number"
    THEN OkOrNumber(NumMul(l.num, r.num), [msg |-> "Bug: Mul should not fail"])
    ELSE Err(NotDefined)

\* impl Div for &Value
ValueDiv(l, r) ==
    IF l.tag = "Number" /\ r.tag = "Number"
    THEN OkOrNumber(NumDiv(l.num, r.num), [msg |-> "Division by zero"])
    ELSE Err(NotDefined)

----------------------------------------------------------------------------
(* Names.                                                                  *)

EndsWithS(name) == Len(name) > 0 /\ name[Len(name)] = "s"
StartsWith(name, pre) == Len(pre) <= Len(name) /\ SubSeq(name, 1, Len(pre)) = pre
\* &name[0..name.len()-1]
StripLast(name) == SubSeq(name, 1, Len(name) - 1)
\* &name[pre.len()..]
StripPrefix(name, pre) == SubSeq(name, Len(pre) + 1, Len(name))
InSeq(x, s) == \E i \in 1..Len(s) : s[i] = x

\* HashMap::insert
Put(f, k, v) == [x \in DOMAIN f \cup {k} |-> IF x = k THEN v ELSE f[x]]
EmptyMap == [x \in {} |-> 0]

----------------------------------------------------------------------------
(* Context::lookup.                                                        *)

\* the unit vectors whose alias is the name; iterating the HashMap returns
\* the first of them in its order; load never gives two vectors one name
AliasUnits(name) == {u \in DOMAIN aliases : aliases[u] = name}

RECURSIVE Lookup(_)
RECURSIVE PrefixPeel(_, _)

\* a prefix loop that forgets the prefix's magnitude
PrefixPeelUnscaled(name, i) ==
    IF i > Len(prefixes) THEN None
    ELSE LET pre == prefixes[i][1]
             v == Lookup(StripPrefix(name, pre))
         IN  IF StartsWith(name, pre) /\ v.tag = "Some"
             THEN v
             ELSE PrefixPeel(name, i + 1)

\* the loop over self.prefixes, from the i-th prefix on
PrefixPeel(name, i) ==
    IF i > Len(prefixes) THEN None
    ELSE LET pre == prefixes[i][1]
             value == prefixes[i][2]
             v == Lookup(StripPrefix(name, pre))
         IN  IF StartsWith(name, pre) /\ v.tag = "Some"
             THEN Some(NumMul(v.val, value).val)
             ELSE PrefixPeel(name, i + 1)

\* a lookup that peels prefixes before it strips the plural
LookupPeelFirst(name) ==
    IF InSeq(name, dimensions) THEN Some(OneUnit(name))
    ELSE IF name \in DOMAIN units THEN Some(units[name])
    ELSE IF AliasUnits(name) # {}
         THEN Some(Number(MpqOne, CHOOSE u \in AliasUnits(name) : TRUE))
    ELSE IF PrefixPeel(name, 1).tag = "Some" THEN PrefixPeel(name, 1)
    ELSE IF EndsWithS(name) THEN Lookup(StripLast(name))
    ELSE None

\* a lookup that knows no plurals
LookupNoPlural(name) ==
    IF InSeq(name, dimensions) THEN Some(OneUnit(name))
    ELSE IF name \in DOMAIN units THEN Some(units[name])
    ELSE IF AliasUnits(name) # {}
         THEN Some(Number(MpqOne, CHOOSE u \in AliasUnits(name) : TRUE))
    ELSE PrefixPeel(name, 1)

Lookup(name) ==
    IF InSeq(name, dimensions) THEN Some(OneUnit(name))
    ELSE IF name \in DOMAIN units THEN Some(units[name])
    ELSE IF AliasUnits(name) # {}
         THEN Some(Number(MpqOne, CHOOSE u \in AliasUnits(name) : TRUE))
    ELSE IF EndsWithS(name) /\ Lookup(StripLast(name)).tag = "Some"
         THEN Lookup(StripLast(name))
    ELSE PrefixPeel(name, 1)

----------------------------------------------------------------------------
(* Expressions: ast::Expr.                                                 *)

EUnit(name) == [e |-> "Unit", name |-> name]
EQuote(name) == [e |-> "Quote", name |-> name]
\* Expr::Const(num, None, None) with the integer part num
EConst(n) == [e |-> "Const", num |-> n]
\* Expr::Date: a literal the date patterns decode to a timestamp, or reject
EDate(d) == [e |-> "Date", date |-> d]
ENeg(x) == [e |-> "Neg", arg |-> x]
EPlus(x) == [e |-> "Plus", arg |-> x]
EFrac(l, r) == [e |-> "Frac", left |-> l, right |-> r]
EAdd(l, r) == [e |-> "Add", left |-> l, right |-> r]
ESub(l, r) == [e |-> "Sub", left |-> l, right |-> r]
EPow(l, r) == [e |-> "Pow", left |-> l, right |-> r]
EMul(args) == [e |-> "Mul", args |-> args]
ECall(name, args) == [e |-> "Call", name |-> name, args |-> args]
EEquals(l, r) == [e |-> "Equals", left |-> l, right |-> r]
ESuffix(op, x) == [e |-> "Suffix", op |-> op, arg |-> x]
EError(m) == [e |-> "Error", msg |-> m]

NowName == <<"n", "o", "w">>

\* Number::from_parts(num, None, None)
from_parts(n) == Ok(Number(Ratio(n, 1), Dimensionless))
\* date::try_decode
try_decode(d) == IF d.ok THEN Ok(d.at) ELSE Err([msg |-> "Failed to parse date"])
\* date::now
now == clock

\* the temperature scales: suffix name, zero constant, scale unit
ZeroCelsius == <<"z","e","r","o","c","e","l","s","i","u","s">>
ZeroFahrenheit == <<"z","e","r","o","f","a","h","r","e","n","h","e","i","t">>
ZeroRomer == <<"z","e","r","o","r","o","m","e","r">>
ZeroDelisle == <<"z","e","r","o","d","e","l","i","s","l","e">>
Kelvin == <<"k","e","l","v","i","n">>
DegRankine == <<"d","e","g","r","a","n","k","i","n","e">>
ReaumurAbsolute == <<"r","e","a","u","m","u","r","_","a","b","s","o","l","u","t","e">>
RomerAbsolute == <<"r","o","m","e","r","_","a","b","s","o","l","u","t","e">>
DelisleAbsolute == <<"d","e","l","i","s","l","e","_","a","b","s","o","l","u","t","e">>
NewtonAbsolute == <<"n","e","w","t","o","n","_","a","b","s","o","l","u","t","e">>

Scales == {"C", "F", "Re", "Ro", "De", "N"}
ScaleBase(s) ==
    CASE s = "C" -> ZeroCelsius
      [] s = "F" -> ZeroFahrenheit
      [] s = "Re" -> ZeroCelsius
      [] s = "Ro" -> ZeroRomer
      [] s = "De" -> ZeroDelisle
      [] s = "N" -> ZeroCelsius
ScaleUnit(s) ==
    CASE s = "C" -> Kelvin
      [] s = "F" -> DegRankine
      [] s = "Re" -> ReaumurAbsolute
      [] s = "Ro" -> RomerAbsolute
      [] s = "De" -> DelisleAbsolute
      [] s = "N" -> NewtonAbsolute

----------------------------------------------------------------------------
(* Context::eval.                                                          *)

OpSymbol(op) == CASE op = "Frac" -> "/" [] op = "Add" -> "+" [] op = "Sub" -> "-"
                    [] op = "Pow" -> "^"

ValueOp(op, l, r) ==
    CASE op = "Frac" -> ValueDiv(l, r)
      [] op = "Add" -> ValueAdd(l, r)
      [] op = "Sub" -> ValueSub(l, r)
      [] op = "Pow" -> ValuePow(l, r)

\* map_err of the operator! macro: "{}: <{}> {} <{}>"
OperatorErrBare(res, left, op, right) == res
OperatorErr(res, left, op, right) ==
    IF res.tag = "Err"
    THEN Err([msg |-> res.err.msg, left |-> Show(left), op |-> OpSymbol(op),
              right |-> Show(right)])
    ELSE res

\* the temperature! macro once the operand is evaluated
TemperatureOf(left, s) ==
    IF left.tag # "Number"
    THEN Err([msg |-> "Expected number, got", left |-> Show(left), scale |-> s])
    ELSE IF left.num.unit # Dimensionless
    THEN Err([msg |-> "Expected dimensionless, got", left |-> Show(left)])
    ELSE LET scale == Lookup(ScaleUnit(s))
             base == Lookup(ScaleBase(s))
         IN  IF scale.tag = "None" THEN Panic("Missing unit")
             ELSE IF base.tag = "None" THEN Panic("Missing constant")
             ELSE LET sum == NumAdd(NumMul(left.num, scale.val).val, base.val)
                  IN  IF sum.tag = "None" THEN Panic("unwrap on None")
                      ELSE Ok(NumberV(sum.val))

RECURSIVE Eval(_)
RECURSIVE MulFold(_, _, _)
RECURSIVE CallArgs(_, _)

\* Expr::Call: the arguments are evaluated in order, the first failure returns
CallArgs(args, i) ==
    IF i > Len(args) THEN Ok(<<>>)
    ELSE LET v == Eval(args[i])
             rest == CallArgs(args, i + 1)
         IN  IF v.tag # "Ok" THEN v
             ELSE IF rest.tag # "Ok" THEN rest
             ELSE Ok(<<v.val>> \o rest.val)

\* Expr::Call once the arguments are evaluated
CallOf(name, args) ==
    IF name # <<"s", "q", "r", "t">>
    THEN Err([msg |-> "Function not found", name |-> name])
    ELSE IF Len(args) # 1
    THEN Err([msg |-> "Argument number mismatch for sqrt", got |-> Len(args)])
    ELSE IF args[1].tag # "Number"
    THEN Err([msg |-> "Expected number, got", left |-> Show(args[1])])
    ELSE IF NumRoot2(args[1].num).tag = "None"
    THEN Err([msg |-> "Expected squared units, got", left |-> Show(args[1].num)])
    ELSE Ok(NumberV(NumRoot2(args[1].num).val))

\* the fold of Expr::Mul over args[i..], a the accumulator
MulFold(a, args, i) ==
    IF i > Len(args) \/ a.tag # "Ok" THEN a
    ELSE LET b == Eval(args[i])
         IN  IF b.tag # "Ok" THEN b
             ELSE LET p == ValueMul(a.val, b.val)
                  IN  IF p.tag = "Err" THEN Panic("unwrap on Err")
                      ELSE MulFold(Ok(p.val), args, i + 1)

Eval(expr) ==
    CASE expr.e = "Unit" ->
            IF expr.name = NowName THEN Ok(DateTimeV(now))
            ELSE LET v == Lookup(expr.name)
                 IN  IF v.tag = "Some" THEN Ok(NumberV(v.val))
                     ELSE Err([msg |-> "Unknown unit", name |-> expr.name])
      [] expr.e = "Quote" -> Ok(NumberV(OneUnit(expr.name)))
      [] expr.e = "Const" ->
            LET n == from_parts(expr.num) IN Ok(NumberV(n.val))
      [] expr.e = "Date" ->
            LET d == try_decode(expr.date)
            IN  IF d.tag = "Ok" THEN Ok(DateTimeV(d.val)) ELSE d
      [] expr.e = "Neg" ->
            LET v == Eval(expr.arg)
            IN  IF v.tag = "Ok" THEN ValueNeg(v.val) ELSE v
      [] expr.e = "Plus" -> Eval(expr.arg)
      [] expr.e \in {"Frac", "Add", "Sub", "Pow"} ->
            LET left == Eval(expr.left)
            IN  IF left.tag # "Ok" THEN left
                ELSE LET right == Eval(expr.right)
                     IN  IF right.tag # "Ok" THEN right
                         ELSE OperatorErr(ValueOp(expr.e, left.val, right.val),
                                          left.val, expr.e, right.val)
      [] expr.e = "Suffix" ->
            LET left == Eval(expr.arg)
            IN  IF left.tag # "Ok" THEN left
                ELSE TemperatureOf(left.val, expr.op)
      [] expr.e = "Mul" -> MulFold(Ok(NumberV(NumberOne)), expr.args, 1)
      [] expr.e = "Equals" -> Eval(expr.right)
      [] expr.e = "Call" ->
            LET args == CallArgs(expr.args, 1)
            IN  IF args.tag # "Ok" THEN args ELSE CallOf(expr.name, args.val)
      [] expr.e = "Error" -> Err([msg |-> expr.msg])

----------------------------------------------------------------------------
(* Context::eval_unit_name: the unit names of a conversion's right side,   *)
(* as written, with their exponents.                                       *)

RECURSIVE EvalUnitName(_)
RECURSIVE UnitNameFold(_, _, _)

\* the fold of Expr::Mul over args[i..], acc the accumulator
UnitNameFold(acc, args, i) ==
    IF i > Len(args) \/ acc.tag # "Ok" THEN acc
    ELSE LET b == EvalUnitName(args[i])
         IN  IF b.tag # "Ok" THEN b
             ELSE UnitNameFold(Ok(UnitMerge(acc.val, b.val)), args, i + 1)

\* Expr::Pow once the exponent is evaluated: v * res as isize, res an f64
UnitNamePow(left, res) ==
    IF res.tag # "Number" THEN Err([msg |-> "Exponents must be numbers"])
    ELSE IF res.num.unit # Dimensionless
    THEN Err([msg |-> "Exponents must be dimensionless"])
    ELSE LET names == EvalUnitName(left)
         IN  IF names.tag # "Ok" THEN names
             ELSE Ok(UnitScale(names.val, MpzDiv(res.num.mag.num, res.num.mag.den)))

EvalUnitName(expr) ==
    CASE expr.e = "Equals" ->
            IF expr.left.e = "Unit" THEN Ok({<<expr.left.name, 1>>})
            ELSE Err([msg |-> "Expected identifier, got", left |-> expr.left])
      [] expr.e = "Call" ->
            Err([msg |-> "Calls are not allowed in the right hand side of conversions"])
      [] expr.e \in {"Unit", "Quote"} -> Ok({<<expr.name, 1>>})
      [] expr.e = "Const" ->
            IF expr.num \in {1, 0 - 1} THEN Ok({})
            ELSE Err([msg |-> "Constants are not allowed in the right hand side of conversions"])
      [] expr.e = "Frac" ->
            LET left == EvalUnitName(expr.left)
                right == EvalUnitName(expr.right)
            IN  IF left.tag # "Ok" THEN left
                ELSE IF right.tag # "Ok" THEN right
                ELSE Ok(UnitMerge(left.val, UnitInvert(right.val)))
      [] expr.e = "Mul" ->
            IF expr.args = <<>> THEN Panic("index out of bounds")
            ELSE UnitNameFold(EvalUnitName(expr.args[1]), expr.args, 2)
      [] expr.e = "Pow" ->
            LET res == Eval(expr.right)
            IN  IF res.tag # "Ok" THEN res ELSE UnitNamePow(expr.left, res.val)
      [] expr.e \in {"Add", "Sub"} ->
            LET left == EvalUnitName(expr.left)
                right == EvalUnitName(expr.right)
            IN  IF left.tag # "Ok" THEN left
                ELSE IF right.tag # "Ok" THEN right
                ELSE IF left.val # right.val
                THEN Err([msg |-> "Add of values with differing dimensions is not meaningful"])
                ELSE left
      [] expr.e \in {"Neg", "Plus"} -> EvalUnitName(expr.arg)
      [] expr.e = "Suffix" ->
            Err([msg |-> "Temperature conversions must not be compound units"])
      [] expr.e = "Date" ->
            Err([msg |-> "Dates are not allowed in the right hand side of conversions"])
      [] expr.e = "Error" -> Err([msg |-> expr.msg])

----------------------------------------------------------------------------
(* Context::describe_unit.                                                 *)

\* Number::root(2) of a number of magnitude one: every exponent must be even
UnitRoot2(u) ==
    IF \A p \in u : p[2] % 2 = 0
    THEN Some({<<p[1], p[2] \div 2>> : p \in u}) ELSE None

\* the dimension names of the model in the order of the BTreeMap's keys
DimOrder == << <<"K">>, <<"a">>, <<"s">> >>
\* the entries of a unit vector with exponents of the sign, in key order
UnitEntries(u, sign) ==
    LET here == SelectSeq(DimOrder, LAMBDA d : UnitPow(u, d) * sign > 0)
    IN  [i \in 1..Len(here) |-> <<here[i], Abs(UnitPow(u, here[i]))>>]

\* what describe_unit writes for one dimension and a positive power
DescribeEntry(dim, pow) ==
    IF {<<dim, pow>>} \in DOMAIN aliases
    THEN <<" ", aliases[{<<dim, pow>>}]>>
    ELSE (IF {<<dim, 1>>} \in DOMAIN aliases
          THEN <<" ", aliases[{<<dim, 1>>}]>>
          ELSE <<" ", "'", dim, "'">>)
         \o (IF pow # 1 THEN <<"^", pow>> ELSE <<>>)

RECURSIVE DescribeEntries(_)
DescribeEntries(es) ==
    IF es = <<>> THEN <<>>
    ELSE DescribeEntry(Head(es)[1], Head(es)[2]) \o DescribeEntries(Tail(es))

\* Context::describe_unit: (reciprocal, text), the text a list of pieces
DescribeUnit(value) ==
    LET u == value.unit
        square == UnitRoot2(u)
        inverse == UnitInvert(u)
        top == UnitEntries(u, 1)
        frac == UnitEntries(u, 0 - 1)
        buf == DescribeEntries(top)
                \o (IF frac # <<>> /\ top # <<>> THEN <<" ", "/">> ELSE <<>>)
                \o DescribeEntries(frac)
    IN  IF u \in DOMAIN aliases THEN Ok(<<FALSE, <<aliases[u]>> >>)
        ELSE IF square.tag = "Some" /\ square.val \in DOMAIN aliases
        THEN Ok(<<FALSE, <<aliases[square.val], "^", 2>> >>)
        ELSE IF inverse \in DOMAIN aliases THEN Ok(<<TRUE, <<aliases[inverse]>> >>)
        ELSE IF buf = <<>> THEN Panic("removal index (is 0) should be < len (is 0)")
        ELSE Ok(<<frac # <<>> /\ top = <<>>, Tail(buf)>>)

----------------------------------------------------------------------------
(* Context::eval_outer: diagnostics and rendering.                         *)

Word(recip) == IF recip THEN "divide" ELSE "multiply"

\* a conformance_err that describes the quotient for the left side and its
\* inverse for the right side
ConformanceErrSwapped(top, bottom) ==
    LET topu == Number(MpqOne, top.unit)
        bottomu == Number(MpqOne, bottom.unit)
        diff == NumDiv(topu, bottomu).val
        l == DescribeUnit(diff)
        r == DescribeUnit(NumInvert(diff))
    IN  IF NumMul(topu, bottomu).val.unit = Dimensionless \/ l.tag = "Panic"
           \/ r.tag = "Panic"
        THEN Err([msg |-> "Conformance error", left |-> Show(topu),
                  right |-> Show(bottomu),
                  suggestions |-> <<"Reciprocal conversion, invert one side">>])
        ELSE Err([msg |-> "Conformance error", left |-> Show(topu),
                  right |-> Show(bottomu),
                  suggestions |-> << <<Word(l.val[1]), "left side by", l.val[2]>>,
                                     <<Word(r.val[1]), "right side by", r.val[2]>> >>])

\* the conformance_err closure
ConformanceErr(top, bottom) ==
    LET topu == Number(MpqOne, top.unit)
        bottomu == Number(MpqOne, bottom.unit)
        diff == NumDiv(topu, bottomu).val
        l == DescribeUnit(NumInvert(diff))
        r == DescribeUnit(diff)
    IN  IF NumMul(topu, bottomu).val.unit = Dimensionless
        THEN Err([msg |-> "Conformance error", left |-> Show(topu),
                  right |-> Show(bottomu),
                  suggestions |-> <<"Reciprocal conversion, invert one side">>])
        ELSE IF l.tag = "Panic" THEN l
        ELSE IF r.tag = "Panic" THEN r
        ELSE Err([msg |-> "Conformance error", left |-> Show(topu),
                  right |-> Show(bottomu),
                  suggestions |-> << <<Word(l.val[1]), "left side by", l.val[2]>>,
                                     <<Word(r.val[1]), "right side by", r.val[2]>> >>])

\* the show closure: the number part, the unit names as written, split by the
\* sign of the exponent, and the description of the target's unit vector
ShowConversion(raw, bottom, bottom_name) ==
    LET reduced == DescribeUnit(bottom)
    IN  IF reduced.tag = "Panic" THEN reduced
        ELSE Ok([number |-> raw.mag,
                 unit_top |-> {p \in bottom_name : p[2] > 0},
                 unit_frac |-> {<<p[1], -p[2]>> : p \in {q \in bottom_name : q[2] < 0}},
                 reduced |-> reduced.val])

\* the temperature! macro of eval_outer: top is the evaluated left side
ConvertTemperature(top, s) ==
    IF top.tag # "Ok" THEN top
    ELSE IF top.val.tag # "Number"
    THEN Err([msg |-> "Cannot convert", left |-> Show(top.val), scale |-> s])
    ELSE LET bottom == Lookup(ScaleUnit(s))
             base == Lookup(ScaleBase(s))
         IN  IF bottom.tag = "None" THEN Panic("Unit missing")
             ELSE IF top.val.num.unit # bottom.val.unit
             THEN ConformanceErr(top.val.num, bottom.val)
             ELSE IF base.tag = "None" THEN Panic("Constant missing")
             ELSE IF NumSub(top.val.num, base.val).tag = "None"
             THEN Panic("unwrap on None")
             ELSE IF NumDiv(NumSub(top.val.num, base.val).val, bottom.val).tag = "None"
             THEN Panic("unwrap on None")
             ELSE ShowConversion(
                    NumDiv(NumSub(top.val.num, base.val).val, bottom.val).val,
                    bottom.val, {<<s, 1>>})

\* Query::Convert(top, Conversion::Expr(bottom)): the three evaluations are
\* made before any of them is looked at
ConvertExpr(topx, bottomx) ==
    LET top == Eval(topx)
        bottom == Eval(bottomx)
        bottom_name == EvalUnitName(bottomx)
    IN  IF top.tag = "Panic" THEN top
        ELSE IF bottom.tag = "Panic" THEN bottom
        ELSE IF bottom_name.tag = "Panic" THEN bottom_name
        ELSE IF top.tag = "Err" THEN top
        ELSE IF bottom.tag = "Err" THEN bottom
        ELSE IF bottom_name.tag = "Err" THEN bottom_name
        ELSE IF top.val.tag # "Number" \/ bottom.val.tag # "Number"
        THEN Err([msg |-> "Conversion of non-numbers is not defined"])
        ELSE IF top.val.num.unit # bottom.val.num.unit
        THEN ConformanceErr(top.val.num, bottom.val.num)
        ELSE IF NumDiv(top.val.num, bottom.val.num).tag = "None"
        THEN Err([msg |-> "Division by zero", left |-> Show(top.val.num),
                  right |-> Show(bottom.val.num)])
        ELSE ShowConversion(NumDiv(top.val.num, bottom.val.num).val,
                            bottom.val.num, bottom_name.val)

RECURSIVE ListSteps(_, _, _, _)
\* a list loop that floors the last value too
ListStepsAllFloored(value, us, i, out) ==
    IF i > Len(us) THEN Ok(out)
    ELSE IF us[i].mag.num = 0 THEN Panic("divide by zero")
    ELSE LET res == MpqDiv(value, us[i].mag)
             div == MpzDiv(res.num, res.den)
             rem == MpqSub(value, MpqMul(us[i].mag, Ratio(div, 1)))
         IN  ListSteps(rem, us, i + 1, Append(out, Ratio(div, 1)))
\* the loop of the list conversion over units[i..], value the residue
ListSteps(value, us, i, out) ==
    IF i > Len(us) THEN Ok(out)
    ELSE IF us[i].mag.num = 0 THEN Panic("divide by zero")
    ELSE LET res == MpqDiv(value, us[i].mag)
             div == MpzDiv(res.num, res.den)
             rem == MpqSub(value, MpqMul(us[i].mag, Ratio(div, 1)))
         IN  ListSteps(rem, us, i + 1,
                       Append(out, IF i = Len(us) THEN res ELSE Ratio(div, 1)))

\* Query::Convert(top, Conversion::List(list)): top is the evaluated left side
ConvertList(top, list) ==
    IF top.tag # "Ok" THEN top
    ELSE IF top.val.tag # "Number"
    THEN Err([msg |-> "Cannot convert", left |-> Show(top.val), list |-> list])
    ELSE IF \E i \in 1..Len(list) : Lookup(list[i]).tag = "None"
    THEN Err([msg |-> "Unit does not exist",
              name |-> list[CHOOSE i \in 1..Len(list) :
                                /\ Lookup(list[i]).tag = "None"
                                /\ \A j \in 1..(i - 1) : Lookup(list[j]).tag = "Some"]])
    ELSE LET us == [i \in 1..Len(list) |-> Lookup(list[i]).val]
             a == top.val.num
         IN  IF us = <<>> THEN Err([msg |-> "Expected non-empty unit list"])
             ELSE IF \E i \in 2..Len(us) : us[1].unit # us[i].unit
             THEN Err([msg |-> "Units in unit list must conform",
                       left |-> Show(us[1]),
                       right |-> Show(us[CHOOSE i \in 2..Len(us) :
                                            /\ us[1].unit # us[i].unit
                                            /\ \A j \in 2..(i - 1) : us[1].unit = us[j].unit])])
             ELSE IF a.unit # us[1].unit THEN ConformanceErr(a, us[1])
             ELSE LET out == ListSteps(a.mag, us, 1, <<>>)
                  IN  IF out.tag # "Ok" THEN out
                      ELSE Ok([out |-> out.val, names |-> list,
                               alias |-> IF a.unit \in DOMAIN aliases
                                         THEN Some(aliases[a.unit]) ELSE None])

----------------------------------------------------------------------------
(* An environment with the temperature constants, and idle loader state.   *)

TempDim == <<"K">>
TempUnit == {<<TempDim, 1>>}
Temp(n, d) == Number(Ratio(n, d), TempUnit)

TempUnits ==
    (Kelvin :> Temp(1, 1)) @@ (DegRankine :> Temp(5, 9)) @@
    (ReaumurAbsolute :> Temp(5, 4)) @@ (RomerAbsolute :> Temp(40, 21)) @@
    (DelisleAbsolute :> Temp(-2, 3)) @@ (NewtonAbsolute :> Temp(100, 33)) @@
    (ZeroCelsius :> Temp(273, 1)) @@ (ZeroFahrenheit :> Temp(255, 1)) @@
    (ZeroRomer :> Temp(259, 1)) @@ (ZeroDelisle :> Temp(373, 1))

\* Context::new()
NewContext ==
    /\ dimensions = <<>>
    /\ units = EmptyMap
    /\ aliases = EmptyMap
    /\ reverse = EmptyMap
    /\ prefixes = <<>>
    /\ definitions = EmptyMap

NoLoad ==
    /\ defs = <<>>
    /\ input = EmptyMap
    /\ order = <<>>
    /\ sorted = <<>>
    /\ unmarked = {}
    /\ temp_marks = {}
    /\ stack = <<>>
    /\ udefs = <<>>
    /\ warnings = <<>>
    /\ round = 0
    /\ first = <<>>

NoQuery == [q |-> "None"]

----------------------------------------------------------------------------
(* SpecEval: Context::eval on a loaded environment.                        *)

NameA == <<"a">>
NameX == <<"x">>
NameSqrt == <<"s", "q", "r", "t">>

Atoms ==
    {EConst(n) : n \in 0..MaxConst} \cup
    {EQuote(NameA), EUnit(SecondDim), EUnit(NowName), EUnit(NameX),
     EDate([ok |-> TRUE, at |-> 1]), EDate([ok |-> FALSE, at |-> 0]),
     EError("parse error")}
Operands ==
    Atoms \cup {EMul(<<EConst(n), u>>) : n \in 1..MaxConst,
                                         u \in {EQuote(NameA), EUnit(SecondDim)}}
SeqsUpTo(S, n) == UNION {[1..k -> S] : k \in 0..n}
Exprs ==
    Operands
    \cup {ENeg(x) : x \in Operands} \cup {EPlus(x) : x \in Operands}
    \cup {EFrac(l, r) : l \in Operands, r \in Operands}
    \cup {EAdd(l, r) : l \in Operands, r \in Operands}
    \cup {ESub(l, r) : l \in Operands, r \in Operands}
    \cup {EMul(a) : a \in SeqsUpTo(Operands, MaxMulArgs)}
    \cup {EEquals(EUnit(NameX), r) : r \in Atoms}
    \cup {ESuffix(s, x) : s \in Scales, x \in Atoms}
    \cup {EPow(l, r) : l \in Operands, r \in Atoms \cup {EFrac(EConst(1), EConst(2))}}
    \cup {ECall(f, a) : f \in {NameSqrt, NameX}, a \in SeqsUpTo(Operands, MaxMulArgs)}

InitEval ==
    /\ dimensions = <<SecondDim>>
    /\ units = TempUnits
    /\ aliases = EmptyMap
    /\ reverse = EmptyMap
    /\ prefixes = <<>>
    /\ definitions = EmptyMap
    /\ clock \in 0..MaxTime
    /\ NoLoad
    /\ pc = "eval"
    /\ query = NoQuery
    /\ result = None

\* Context::eval(expr)
EvalQuery ==
    /\ pc = "eval"
    /\ \E expr \in Exprs :
        /\ query' = [q |-> "Eval", expr |-> expr]
        /\ result' = Eval(expr)
    /\ pc' = "evaluated"
    /\ UNCHANGED <<ctx, clock, defs, resolver, warnings, round, first>>

NextEval == EvalQuery
SpecEval == InitEval /\ [][NextEval]_vars

----------------------------------------------------------------------------
(* SpecTemp: a temperature written with a scale suffix, converted to a     *)
(* scale, and the answer converted back.                                   *)

MaxX == 2
MaxXDen == 2

Without(m, k) == [x \in (DOMAIN m) \ {k} |-> m[x]]

\* the temperature units as loaded, the same with one name redefined (no
\* magnitude, or another dimension) or missing, and the same as bare numbers
TempEnvs ==
    {TempUnits} \cup
    {Put(TempUnits, n, v) : n \in DOMAIN TempUnits,
                            v \in {Number(MpqZero, TempUnit), Number(MpqOne, {<<NameA, 1>>})}} \cup
    {Without(TempUnits, n) : n \in DOMAIN TempUnits} \cup
    {[n \in DOMAIN TempUnits |-> Number(TempUnits[n].mag, Dimensionless)]}

NameTemperature == <<"t", "e", "m", "p">>
NameRatio == <<"r", "a", "t", "i", "o">>

InitTemp ==
    /\ dimensions = <<TempDim, NameA>>
    /\ units \in TempEnvs
    /\ aliases \in {EmptyMap, Put(EmptyMap, TempUnit, NameTemperature),
                    Put(EmptyMap, Dimensionless, NameRatio)}
    /\ reverse = EmptyMap
    /\ prefixes = <<>>
    /\ definitions = EmptyMap
    /\ clock = 0
    /\ NoLoad
    /\ pc = "eval"
    /\ query = NoQuery
    /\ result = None

\* eval_outer(Query::Convert(x suffix(from), Conversion::Deg<to>))
ConvertTo ==
    /\ pc = "eval"
    /\ \E n \in (0 - MaxX)..MaxX, d \in 1..MaxXDen, from \in Scales, to \in Scales :
        LET top == ESuffix(from, EFrac(EConst(n), EConst(d)))
        IN  /\ query' = [q |-> "Convert", top |-> top, to |-> to,
                         x |-> Ratio(n, d), from |-> from]
            /\ result' = ConvertTemperature(Eval(top), to)
    /\ pc' = "converted"
    /\ UNCHANGED <<ctx, clock, defs, resolver, warnings, round, first>>

\* the answer's number, written with the target's suffix, converted back
ConvertBack ==
    /\ pc = "converted"
    /\ result.tag = "Ok"
    /\ LET y == result.val.number
           top == ESuffix(query.to, EFrac(EConst(y.num), EConst(y.den)))
       IN  /\ query' = [q |-> "Convert", top |-> top, to |-> query.from,
                        x |-> query.x, from |-> query.to]
           /\ result' = ConvertTemperature(Eval(top), query.from)
    /\ pc' = "converted back"
    /\ UNCHANGED <<ctx, clock, defs, resolver, warnings, round, first>>

NextTemp == ConvertTo \/ ConvertBack
SpecTemp == InitTemp /\ [][NextTemp]_vars

----------------------------------------------------------------------------
(* SpecList: the conversion of a quantity to a list of units.              *)

MaxListLen == 2
MaxTop == 7

NameK == <<"k">>
NameKK == <<"k", "k">>
NameKA == <<"k", "a">>
NameU == <<"u">>
NameLength == <<"l", "e", "n">>

\* lengths of 3, 1/2 and 0 of the dimension a, and a duration
ListUnits ==
    (NameK :> Number(Ratio(3, 1), {<<NameA, 1>>})) @@
    (NameKK :> Number(Ratio(1, 2), {<<NameA, 1>>})) @@
    (NameKA :> Number(MpqZero, {<<NameA, 1>>})) @@
    (NameX :> Number(Ratio(2, 1), {<<SecondDim, 1>>}))

ListNames == {NameA, NameK, NameKK, NameKA, NameX, NameU}

ListTops ==
    {EFrac(EMul(<<EConst(n), EUnit(u)>>), EConst(d)) :
        n \in (0 - MaxTop)..MaxTop, d \in {1, 2}, u \in {NameA, NameKK}} \cup
    {EUnit(NowName), EUnit(NameX), EUnit(NameU)}

InitList ==
    /\ dimensions = <<NameA, SecondDim>>
    /\ units = ListUnits
    /\ aliases \in {EmptyMap, Put(EmptyMap, {<<NameA, 1>>}, NameLength)}
    /\ reverse = EmptyMap
    /\ prefixes = <<>>
    /\ definitions = EmptyMap
    /\ clock = 0
    /\ NoLoad
    /\ pc = "eval"
    /\ query = NoQuery
    /\ result = None

\* eval_outer(Query::Convert(top, Conversion::List(list)))
ConvertToList ==
    /\ pc = "eval"
    /\ \E top \in ListTops, list \in SeqsUpTo(ListNames, MaxListLen) :
        /\ query' = [q |-> "Convert", top |-> top, list |-> list]
        /\ result' = ConvertList(Eval(top), list)
    /\ pc' = "converted"
    /\ UNCHANGED <<ctx, clock, defs, resolver, warnings, round, first>>

NextList == ConvertToList
SpecList == InitList /\ [][NextList]_vars

\* a query that never returns
Diverges == [tag |-> "Diverges"]

\* the while loop of the definition lookup: the name it stops at, or None when
\* it comes back to a name of seen, from where it repeats itself for ever
RECURSIVE DefinitionStop(_, _)
DefinitionStop(name, seen) ==
    LET def == definitions[name]
    IN  IF def.e = "Unit" /\ def.name \in DOMAIN definitions
        THEN IF def.name \in seen THEN None
             ELSE DefinitionStop(def.name, seen \cup {def.name})
        ELSE Some(name)

\* eval_outer(Query::Expr(Expr::Unit(name))), name a key of definitions
DefinitionLookup(name) ==
    LET stop == DefinitionStop(name, {name})
    IN  IF stop.tag = "None" THEN Diverges
        ELSE IF Lookup(stop.val).tag = "None"
        THEN Panic("called Option::unwrap() on a None value")
        ELSE Ok([text |-> "Definition", name |-> stop.val,
                 def |-> definitions[stop.val],
                 value |-> Show(Lookup(stop.val).val)])

\* Vec::dedup: a run of equal consecutive elements collapses to one
RECURSIVE Dedup(_)
Dedup(v) ==
    IF Len(v) <= 1 THEN v
    ELSE IF v[1] = v[2] THEN Dedup(Tail(v))
    ELSE <<v[1]>> \o Dedup(Tail(v))

\* the names a factorization can mention, in the order of BTreeMap<Rc<String>, _>
NameOrder == << <<"l", "e", "n">>, <<"r", "a", "t", "i", "o">>, <<"t", "i", "m", "e">> >>

\* one factorization: each name once, in order, with its count when above 1
FactorNames(names) ==
    LET count(n) == Cardinality({i \in DOMAIN names : names[i] = n})
        all == [i \in DOMAIN NameOrder |->
                    IF count(NameOrder[i]) > 1
                    THEN <<NameOrder[i], "^", count(NameOrder[i])>>
                    ELSE <<NameOrder[i]>>]
    IN  SelectSeq(all, LAMBDA piece : count(piece[1]) > 0)

\* eval_outer(Query::Factorize(expr)); heap is what factorize() returned, as
\* into_sorted_vec() yields it
Factorize(expr, heap) ==
    LET val == Eval(expr)
        results == Dedup(heap)
        len == Len(results)
    IN  IF val.tag # "Ok" THEN val
        ELSE IF val.val.tag # "Number"
        THEN Err([msg |-> "Cannot find derivatives of", of |-> Show(val.val)])
        ELSE Ok([text |-> "Factorizations",
                 results |-> [i \in 1..len |-> FactorNames(results[i].names)],
                 marker |-> IF len < 10 THEN "" ELSE ";  ..."])

----------------------------------------------------------------------------
(* SpecConvert: symbolic conversions, the unit names of their right sides, *)
(* and the description of unit vectors.                                    *)

MaxExp == 2

NameD == <<"d">>
NameTime == <<"t", "i", "m", "e">>

\* the units of the list conversion and a bare number, d = 2
ConvUnits == ListUnits @@ (NameD :> Number(Ratio(2, 1), Dimensionless))
ConvNames == {NameA, NameK, NameKA, NameX, NameD}

ConvAliases ==
    {EmptyMap,
     Put(EmptyMap, {<<NameA, 1>>}, NameLength),
     Put(EmptyMap, {<<SecondDim, 1>>}, NameTime),
     Put(Put(EmptyMap, {<<SecondDim, 1>>}, NameTime), {<<SecondDim, 0 - 1>>}, NameRatio),
     Put(EmptyMap, {<<SecondDim, 2>>}, NameLength),
     Put(Put(EmptyMap, {<<SecondDim, 1>>}, NameTime), {<<SecondDim, 0 - 2>>}, NameRatio),
     Put(EmptyMap, Dimensionless, NameRatio)}

ConvTops ==
    {EMul(<<EConst(n), EUnit(u)>>) : n \in 0..MaxConst, u \in ConvNames} \cup
    {EFrac(EUnit(u), EUnit(v)) : u \in {NameA, NameK}, v \in {NameX, NameK}} \cup
    {EUnit(NowName), EUnit(NameU), EConst(MaxConst),
     EFrac(EConst(1), EUnit(NameX)), EMul(<<EUnit(NameX), EUnit(NameX)>>)}

\* exponents: integers of either sign, 1/2 and 3/2, a duration, a timestamp
ConvExponents ==
    {EConst(k) : k \in (0 - MaxExp)..MaxExp} \cup
    {EFrac(EConst(1), EConst(2)), EFrac(EConst(3), EConst(2)),
     ENeg(EFrac(EConst(3), EConst(2))), EUnit(NameX), EUnit(NowName)}

ConvBottoms ==
    {EUnit(u) : u \in ConvNames \cup {NameU, NowName}} \cup
    {EFrac(EUnit(u), EUnit(v)) : u \in ConvNames, v \in ConvNames} \cup
    {EMul(<<EUnit(u), EUnit(v)>>) : u \in ConvNames, v \in ConvNames} \cup
    {EPow(b, x) : b \in {EUnit(NameA), EMul(<<EUnit(NameK), EUnit(NameX)>>),
                         EFrac(EUnit(NameA), EUnit(NameX))},
                  x \in ConvExponents} \cup
    {EConst(1), EConst(0 - 1), EConst(2), EMul(<<>>), EQuote(NameA),
     EAdd(EUnit(NameA), EUnit(NameK)), ESub(EUnit(NameA), EUnit(NameA)),
     ENeg(EUnit(NameA)), EPlus(EUnit(NameK)),
     EEquals(EUnit(NameK), EUnit(NameA)), EEquals(EConst(1), EUnit(NameA)),
     ECall(NameSqrt, <<EUnit(NameA)>>), ESuffix("C", EConst(1)),
     EDate([ok |-> TRUE, at |-> 1]), EError("parse error")}

\* the unit vectors over the two dimensions with exponents up to MaxExp
ConvVectors ==
    {UnitMerge({<<NameA, i>>}, {<<SecondDim, j>>}) :
        i \in (0 - MaxExp)..MaxExp, j \in (0 - MaxExp)..MaxExp}

InitConvert ==
    /\ dimensions = <<NameA, SecondDim>>
    /\ units = ConvUnits
    /\ aliases \in ConvAliases
    /\ reverse = EmptyMap
    /\ prefixes = <<>>
    /\ definitions = EmptyMap
    /\ clock = 0
    /\ NoLoad
    /\ pc = "eval"
    /\ query = NoQuery
    /\ result = None

\* eval_outer(Query::Convert(top, Conversion::Expr(bottom)))
ConvertToExpr ==
    /\ pc = "eval"
    /\ \E top \in ConvTops, bottom \in ConvBottoms :
        /\ query' = [q |-> "Convert", top |-> top, bottom |-> bottom]
        /\ result' = ConvertExpr(top, bottom)
    /\ pc' = "converted"
    /\ UNCHANGED <<ctx, clock, defs, resolver, warnings, round, first>>

\* Context::eval_unit_name(expr)
UnitNameQuery ==
    /\ pc = "eval"
    /\ \E expr \in ConvBottoms :
        /\ query' = [q |-> "UnitName", expr |-> expr]
        /\ result' = EvalUnitName(expr)
    /\ pc' = "named"
    /\ UNCHANGED <<ctx, clock, defs, resolver, warnings, round, first>>

\* Context::describe_unit(value)
DescribeQuery ==
    /\ pc = "eval"
    /\ \E u \in ConvVectors :
        /\ query' = [q |-> "Describe", value |-> Number(MpqOne, u)]
        /\ result' = DescribeUnit(Number(MpqOne, u))
    /\ pc' = "described"
    /\ UNCHANGED <<ctx, clock, defs, resolver, warnings, round, first>>

\* the most factorizations the factorizer returns
MaxFactors == 11

\* the i-th factorization by score: one to three names
Factors(i) ==
    [score |-> i,
     names |-> [j \in 1..(1 + (i % 3)) |->
                    IF (i + j) % 2 = 0 THEN NameLength ELSE NameTime]]

\* the sorted results of the factorizer: n factorizations, each one twice
\* when dup
FactorHeap(n, dup) ==
    IF dup THEN [k \in 1..(2 * n) |-> Factors((k + 1) \div 2)]
    ELSE [k \in 1..n |-> Factors(k)]

\* eval_outer(Query::Factorize(expr))
FactorizeQuery ==
    /\ pc = "eval"
    /\ \E expr \in ConvTops, n \in 0..MaxFactors, dup \in BOOLEAN :
        /\ query' = [q |-> "Factorize", expr |-> expr, heap |-> FactorHeap(n, dup)]
        /\ result' = Factorize(expr, FactorHeap(n, dup))
    /\ pc' = "factorized"
    /\ UNCHANGED <<ctx, clock, defs, resolver, warnings, round, first>>

NextConvert == ConvertToExpr \/ UnitNameQuery \/ DescribeQuery \/ FactorizeQuery
SpecConvert == InitConvert /\ [][NextConvert]_vars

----------------------------------------------------------------------------
(* Definitions: ast::Def, and the loader's Name.                           *)

DDimension(dname) == [d |-> "Dimension", dname |-> dname]
DUnit(expr) == [d |-> "Unit", expr |-> expr]
DPrefix(expr) == [d |-> "Prefix", expr |-> expr]
DSPrefix(expr) == [d |-> "SPrefix", expr |-> expr]
DQuantity(expr) == [d |-> "Quantity", expr |-> expr]
DError(msg) == [d |-> "Error", msg |-> msg]

NUnit(name) == [ns |-> "Unit", name |-> name]
NPrefix(name) == [ns |-> "Prefix", name |-> name]
NQuantity(name) == [ns |-> "Quantity", name |-> name]

\* the classification of one (name, def) pair
NameOf(name, def) ==
    CASE def.d \in {"Prefix", "SPrefix"} -> NPrefix(name)
      [] def.d = "Quantity" -> NQuantity(name)
      [] OTHER -> NUnit(name)

\* the derived SI units that may enter Context.reverse
ReverseNames ==
    {<<"n","e","w","t","o","n">>, <<"p","a","s","c","a","l">>,
     <<"j","o","u","l","e">>, <<"w","a","t","t">>,
     <<"c","o","u","l","o","m","b">>, <<"v","o","l","t">>, <<"o","h","m">>,
     <<"s","i","e","m","e","n","s">>, <<"f","a","r","a","d">>,
     <<"w","e","b","e","r">>, <<"h","e","n","r","y">>, <<"t","e","s","l","a">>}

----------------------------------------------------------------------------
(* The definitions a load is given.                                        *)

\* the largest number of definitions in one load
MaxDefs == 3
\* the longest name a lookup query asks for
MaxNameLen == 3

NameAS == <<"a", "s">>

Catalogue ==
    << <<NameA, DDimension(NameA)>>,
       <<NameAS, DUnit(EMul(<<EConst(5), EUnit(NameA)>>))>>,
       <<NameK, DPrefix(EConst(2))>>,
       <<NameKK, DSPrefix(EConst(3))>>,
       <<NameA, DQuantity(EUnit(NameA))>>,
       <<NameK, DQuantity(EUnit(NameA))>>,
       <<NameKA, DUnit(EUnit(NameAS))>>,
       <<NameAS, DUnit(EUnit(NameKA))>>,
       <<SecondDim, DUnit(EUnit(NowName))>>,
       <<NameX, DUnit(EMul(<<EUnit(NowName), EConst(2)>>))>>,
       <<NameK, DQuantity(EConst(1))>>,
       <<NameD, DUnit(EUnit(NameK))>>,
       <<NameD, DQuantity(EConst(2))>>,
       <<SecondDim, DError("parse error")>> >>

\* the entries of the catalogue with an index in I, in the catalogue's order
SubCatalogue(I) ==
    LET idx == SelectSeq([i \in 1..Len(Catalogue) |-> i], LAMBDA i : i \in I)
    IN  [j \in 1..Len(idx) |-> Catalogue[idx[j]]]

DefLists ==
    {SubCatalogue(I) :
        I \in {J \in SUBSET (1..Len(Catalogue)) : Cardinality(J) <= MaxDefs}}

Alphabet == {"a", "k", "s"}
QueryNames == UNION {[1..n -> Alphabet] : n \in 1..MaxNameLen}

Perms(S) ==
    {p \in [1..Cardinality(S) -> S] : \A i, j \in 1..Cardinality(S) : p[i] = p[j] => i = j}

----------------------------------------------------------------------------
(* The Resolver of Context::load.                                          *)

RECURSIVE ResolverLookup(_)
RECURSIVE ResolverPeel(_, _)

\* the loop over found: the prefixes of the working map the name starts
\* with, in the map's iteration order
ResolverPeel(name, found) ==
    IF found = <<>> THEN None
    ELSE LET pre == Head(found)
             r == ResolverLookup(StripPrefix(name, pre))
         IN  IF r.tag = "Some" THEN Some(Append(r.val, NPrefix(pre)))
             ELSE ResolverPeel(name, Tail(found))

\* Resolver::lookup: None, or the entries it visits, in the order of the visits
ResolverLookup(name) ==
    IF NUnit(name) \in DOMAIN input THEN Some(<<NUnit(name)>>)
    ELSE IF NPrefix(name) \in DOMAIN input THEN Some(<<NPrefix(name)>>)
    ELSE IF NQuantity(name) \in DOMAIN input THEN Some(<<NQuantity(name)>>)
    ELSE IF EndsWithS(name) /\ ResolverLookup(StripLast(name)).tag = "Some"
         THEN ResolverLookup(StripLast(name))
    ELSE ResolverPeel(name, SelectSeq(order, LAMBDA pre : StartsWith(name, pre)))

RECURSIVE Idents(_)
RECURSIVE IdentsOfArgs(_, _)
IdentsOfArgs(args, i) ==
    IF i > Len(args) THEN <<>> ELSE Idents(args[i]) \o IdentsOfArgs(args, i + 1)
\* Resolver::eval: the identifiers of an expression in the order it meets them
Idents(expr) ==
    CASE expr.e = "Unit" -> <<expr.name>>
      [] expr.e \in {"Frac", "Pow", "Add", "Sub"} -> Idents(expr.left) \o Idents(expr.right)
      [] expr.e \in {"Neg", "Plus", "Suffix"} -> Idents(expr.arg)
      [] expr.e \in {"Mul", "Call"} -> IdentsOfArgs(expr.args, 1)
      [] OTHER -> <<>>

RECURSIVE ItemsOf(_)
\* what Resolver::eval does for a list of identifiers: a visit of each entry
\* the lookup resolves, or the print of a failed lookup
ItemsOf(ids) ==
    IF ids = <<>> THEN <<>>
    ELSE LET r == ResolverLookup(Head(ids))
         IN  (IF r.tag = "None" THEN <<[item |-> "failed", name |-> Head(ids)]>>
              ELSE [i \in 1..Len(r.val) |-> [item |-> "visit", name |-> r.val[i]]])
             \o ItemsOf(Tail(ids))

\* what the body of Resolver::visit does for an unmarked entry
VisitItems(name) ==
    IF input[name].d \in {"Prefix", "SPrefix", "Unit", "Quantity"}
    THEN ItemsOf(Idents(input[name].expr))
    ELSE <<>>

Frame(name) == [name |-> name, items |-> VisitItems(name)]
Top == stack[Len(stack)]
\* the stack with the first item of the innermost visit taken
Advance == [stack EXCEPT ![Len(stack)].items = Tail(@)]

Warn(w) == warnings' = Append(warnings, w)

\* the resolver is set up and the definitions are classified
LoadStart ==
    /\ pc = "start"
    /\ LET keys == {NameOf(defs[i][1], defs[i][2]) : i \in 1..Len(defs)}
           last(k) == CHOOSE i \in 1..Len(defs) :
                        /\ NameOf(defs[i][1], defs[i][2]) = k
                        /\ \A j \in 1..Len(defs) :
                              NameOf(defs[j][1], defs[j][2]) = k => j <= i
       IN  /\ input' = [k \in keys |-> defs[last(k)][2]]
           /\ unmarked' = keys
           /\ order' \in Perms({k.name : k \in {x \in keys : x.ns = "Prefix"}})
    /\ sorted' = <<>>
    /\ temp_marks' = {}
    /\ stack' = <<>>
    /\ pc' = "sort"
    /\ UNCHANGED <<ctx, clock, defs, udefs, warnings, round, first, query, result>>

\* the ordering loop takes an unmarked entry and visits it
SortPick ==
    /\ pc = "sort" /\ stack = <<>>
    /\ \E name \in unmarked :
        /\ temp_marks' = temp_marks \cup {name}
        /\ stack' = <<Frame(name)>>
    /\ UNCHANGED <<ctx, clock, defs, input, order, sorted, unmarked, udefs,
                   warnings, round, first, pc, query, result>>

HasItem(kind) ==
    /\ pc = "sort" /\ stack # <<>> /\ Top.items # <<>>
    /\ Head(Top.items).item = kind

\* Resolver::eval prints a failed lookup
SortLookupFailed ==
    /\ HasItem("failed")
    /\ Warn([w |-> "Lookup failed", name |-> Head(Top.items).name])
    /\ stack' = Advance
    /\ UNCHANGED <<ctx, clock, defs, input, order, sorted, unmarked, temp_marks,
                   udefs, round, first, pc, query, result>>

\* Resolver::visit of an entry that is in progress: a back edge
VisitCycle ==
    /\ HasItem("visit")
    /\ Head(Top.items).name \in temp_marks
    /\ Warn([w |-> "dependency cycle", name |-> Head(Top.items).name])
    /\ stack' = Advance
    /\ UNCHANGED <<ctx, clock, defs, input, order, sorted, unmarked, temp_marks,
                   udefs, round, first, pc, query, result>>

\* a visit that returns from an unmarked entry without walking it
VisitEnterSkipped ==
    /\ HasItem("visit")
    /\ Head(Top.items).name \notin temp_marks
    /\ Head(Top.items).name \in unmarked
    /\ stack' = Advance
    /\ UNCHANGED <<ctx, clock, defs, input, order, sorted, unmarked, temp_marks,
                   udefs, warnings, round, first, pc, query, result>>

\* Resolver::visit of an unmarked entry: mark it in progress and walk its
\* defining expression
VisitEnter ==
    /\ HasItem("visit")
    /\ LET name == Head(Top.items).name
       IN  /\ name \notin temp_marks
           /\ name \in unmarked
           /\ temp_marks' = temp_marks \cup {name}
           /\ stack' = Append(Advance, Frame(name))
    /\ UNCHANGED <<ctx, clock, defs, input, order, sorted, unmarked, udefs,
                   warnings, round, first, pc, query, result>>

\* Resolver::visit of an entry that is already sorted
VisitSorted ==
    /\ HasItem("visit")
    /\ Head(Top.items).name \notin temp_marks
    /\ Head(Top.items).name \notin unmarked
    /\ stack' = Advance
    /\ UNCHANGED <<ctx, clock, defs, input, order, sorted, unmarked, temp_marks,
                   udefs, warnings, round, first, pc, query, result>>

\* an end of visit that leaves the entry among the unmarked ones
VisitExitStaysUnmarked ==
    /\ pc = "sort" /\ stack # <<>> /\ Top.items = <<>>
    /\ temp_marks' = temp_marks \ {Top.name}
    /\ sorted' = Append(sorted, Top.name)
    /\ stack' = SubSeq(stack, 1, Len(stack) - 1)
    /\ UNCHANGED <<ctx, clock, defs, input, order, unmarked, udefs, warnings,
                   round, first, pc, query, result>>

\* the end of Resolver::visit: the entry is done and joins the sorted list
VisitExit ==
    /\ pc = "sort" /\ stack # <<>> /\ Top.items = <<>>
    /\ unmarked' = unmarked \ {Top.name}
    /\ temp_marks' = temp_marks \ {Top.name}
    /\ sorted' = Append(sorted, Top.name)
    /\ stack' = SubSeq(stack, 1, Len(stack) - 1)
    /\ UNCHANGED <<ctx, clock, defs, input, order, udefs, warnings, round, first,
                   pc, query, result>>

NoDuplicates(s) == \A i, j \in 1..Len(s) : s[i] = s[j] => i = j

\* the ordering loop ends: each sorted name takes its definition out of input
SortEnd ==
    /\ pc = "sort" /\ stack = <<>> /\ unmarked = {}
    /\ IF NoDuplicates(sorted)
       THEN /\ udefs' = [i \in 1..Len(sorted) |-> <<sorted[i], input[sorted[i]]>>]
            /\ pc' = "interp"
       ELSE /\ udefs' = <<>>
            /\ pc' = "aborted"
    /\ UNCHANGED <<ctx, clock, defs, input, order, sorted, unmarked, temp_marks,
                   stack, warnings, round, first, query, result>>

----------------------------------------------------------------------------
(* The interpretation loop of Context::load.                               *)

Interpreting(kind) ==
    /\ pc = "interp" /\ udefs # <<>>
    /\ Head(udefs)[2].d = kind
EntryName == Head(udefs)[1].name
EntryDef == Head(udefs)[2]
EntryValue == Eval(EntryDef.expr)

\* the evaluation of the entry did not give a number
NotInstalled(what) ==
    /\ EntryValue.tag = "Panic" => /\ pc' = "aborted"
                                   /\ UNCHANGED warnings
    /\ EntryValue.tag = "Ok" => /\ pc' = pc
                                /\ Warn([w |-> "is not a number", name |-> EntryName,
                                         def |-> what])
    /\ EntryValue.tag = "Err" => /\ pc' = pc
                                 /\ Warn([w |-> "is malformed", name |-> EntryName,
                                          def |-> what, err |-> EntryValue.err])

InterpretDimension ==
    /\ Interpreting("Dimension")
    /\ dimensions' = Append(dimensions, EntryDef.dname)
    /\ udefs' = Tail(udefs)
    /\ UNCHANGED <<units, aliases, reverse, prefixes, definitions, clock, defs,
                   input, order, sorted, unmarked, temp_marks, stack, warnings,
                   round, first, pc, query, result>>

InterpretUnit ==
    /\ Interpreting("Unit")
    /\ IF IsNumber(EntryValue)
       THEN LET v == EntryValue.val.num
            IN  /\ reverse' = IF v.mag = MpqOne /\ EntryName \in ReverseNames
                              THEN Put(reverse, v.unit, EntryName) ELSE reverse
                /\ definitions' = Put(definitions, EntryName, EntryDef.expr)
                /\ units' = Put(units, EntryName, v)
                /\ UNCHANGED <<warnings, pc>>
       ELSE /\ NotInstalled("Unit")
            /\ UNCHANGED <<reverse, definitions, units>>
    /\ udefs' = Tail(udefs)
    /\ UNCHANGED <<dimensions, aliases, prefixes, clock, defs, input, order, sorted,
                   unmarked, temp_marks, stack, round, first, query, result>>

InterpretPrefix ==
    /\ Interpreting("Prefix")
    /\ IF IsNumber(EntryValue)
       THEN /\ prefixes' = Append(prefixes, <<EntryName, EntryValue.val.num>>)
            /\ UNCHANGED <<warnings, pc>>
       ELSE /\ NotInstalled("Prefix")
            /\ UNCHANGED prefixes
    /\ udefs' = Tail(udefs)
    /\ UNCHANGED <<dimensions, units, aliases, reverse, definitions, clock, defs,
                   input, order, sorted, unmarked, temp_marks, stack, round, first,
                   query, result>>

InterpretSPrefix ==
    /\ Interpreting("SPrefix")
    /\ IF IsNumber(EntryValue)
       THEN /\ prefixes' = Append(prefixes, <<EntryName, EntryValue.val.num>>)
            /\ units' = Put(units, EntryName, EntryValue.val.num)
            /\ UNCHANGED <<warnings, pc>>
       ELSE /\ NotInstalled("Prefix")
            /\ UNCHANGED <<prefixes, units>>
    /\ udefs' = Tail(udefs)
    /\ UNCHANGED <<dimensions, aliases, reverse, definitions, clock, defs, input,
                   order, sorted, unmarked, temp_marks, stack, round, first, query,
                   result>>

\* a Quantity arm that installs its expression over an existing definition
InterpretQuantityOverwrites ==
    /\ Interpreting("Quantity")
    /\ IF IsNumber(EntryValue)
       THEN LET v == EntryValue.val.num
            IN  /\ aliases' = Put(aliases, v.unit, EntryName)
                /\ definitions' = Put(definitions, EntryName, EntryDef.expr)
                /\ IF v.unit \in DOMAIN aliases
                   THEN Warn([w |-> "Conflicting quantities", name |-> EntryName,
                              old |-> aliases[v.unit]])
                   ELSE UNCHANGED warnings
                /\ UNCHANGED pc
       ELSE /\ NotInstalled("Quantity")
            /\ UNCHANGED <<aliases, definitions>>
    /\ udefs' = Tail(udefs)
    /\ UNCHANGED <<dimensions, units, reverse, prefixes, clock, defs, input, order,
                   sorted, unmarked, temp_marks, stack, round, first, query, result>>

InterpretQuantity ==
    /\ Interpreting("Quantity")
    /\ IF IsNumber(EntryValue)
       THEN LET v == EntryValue.val.num
            IN  /\ aliases' = Put(aliases, v.unit, EntryName)
                /\ definitions' = IF EntryName \in DOMAIN definitions THEN definitions
                                  ELSE Put(definitions, EntryName, EntryDef.expr)
                /\ IF v.unit \in DOMAIN aliases
                   THEN Warn([w |-> "Conflicting quantities", name |-> EntryName,
                              old |-> aliases[v.unit]])
                   ELSE UNCHANGED warnings
                /\ UNCHANGED pc
       ELSE /\ NotInstalled("Quantity")
            /\ UNCHANGED <<aliases, definitions>>
    /\ udefs' = Tail(udefs)
    /\ UNCHANGED <<dimensions, units, reverse, prefixes, clock, defs, input, order,
                   sorted, unmarked, temp_marks, stack, round, first, query, result>>

InterpretError ==
    /\ Interpreting("Error")
    /\ Warn([w |-> "Def", name |-> EntryName, err |-> EntryDef.msg])
    /\ udefs' = Tail(udefs)
    /\ UNCHANGED <<ctx, clock, defs, input, order, sorted, unmarked, temp_marks,
                   stack, round, first, pc, query, result>>

\* load returns; the resolver and the sorted list are dropped
LoadEnd ==
    /\ pc = "interp" /\ udefs = <<>>
    /\ pc' = "done"
    /\ input' = EmptyMap
    /\ order' = <<>>
    /\ sorted' = <<>>
    /\ UNCHANGED <<ctx, clock, defs, unmarked, temp_marks, stack, udefs, warnings,
                   round, first, query, result>>

\* the same definitions are loaded into a second fresh Context
Reload ==
    /\ pc = "done" /\ round = 1
    /\ first' = ctx
    /\ dimensions' = <<>>
    /\ units' = EmptyMap
    /\ aliases' = EmptyMap
    /\ reverse' = EmptyMap
    /\ prefixes' = <<>>
    /\ definitions' = EmptyMap
    /\ warnings' = <<>>
    /\ round' = 2
    /\ pc' = "start"
    /\ UNCHANGED <<clock, defs, resolver, query, result>>

\* Context::lookup(name) on the loaded environment
LookupQuery ==
    /\ pc = "done" /\ round = 1
    /\ \E name \in QueryNames :
        /\ query' = [q |-> "Lookup", name |-> name]
        /\ result' = Lookup(name)
    /\ pc' = "looked up"
    /\ UNCHANGED <<ctx, clock, defs, resolver, warnings, round, first>>

\* eval_outer(Query::Expr(Expr::Unit(name))) on the loaded environment, for a
\* name that has a definition
DefinitionQuery ==
    /\ pc = "done" /\ round = 1
    /\ \E name \in DOMAIN definitions :
        /\ query' = [q |-> "Definition", name |-> name]
        /\ result' = DefinitionLookup(name)
    /\ pc' = "defined"
    /\ UNCHANGED <<ctx, clock, defs, resolver, warnings, round, first>>

Init ==
    /\ NewContext
    /\ clock = 0
    /\ defs \in DefLists
    /\ input = EmptyMap
    /\ order = <<>>
    /\ sorted = <<>>
    /\ unmarked = {}
    /\ temp_marks = {}
    /\ stack = <<>>
    /\ udefs = <<>>
    /\ warnings = <<>>
    /\ round = 1
    /\ first = <<>>
    /\ pc = "start"
    /\ query = NoQuery
    /\ result = None

Sort ==
    \/ SortPick \/ SortLookupFailed \/ VisitCycle \/ VisitEnter \/ VisitSorted
    \/ VisitExit \/ SortEnd
Interpret ==
    \/ InterpretDimension \/ InterpretUnit \/ InterpretPrefix \/ InterpretSPrefix
    \/ InterpretQuantity \/ InterpretError
Load == LoadStart \/ Sort \/ Interpret \/ LoadEnd

Next == Load \/ Reload \/ LookupQuery \/ DefinitionQuery
Spec == Init /\ [][Next]_vars

----------------------------------------------------------------------------
(* Claims about Context::eval, checked under SpecEval.                     *)

Evaluated(op) == pc = "evaluated" /\ query.q = "Eval" /\ query.expr.e = op
Has(rec, fld) == fld \in DOMAIN rec

MismatchText ==
    {"Addition of units with mismatched units is not meaningful",
     "Subtraction of units with mismatched units is not meaningful"}

\* C1: a + b and a - b of two dimensioned numbers succeed, keeping the shared
\* unit vector, exactly when the unit vectors are identical; otherwise the
\* result is an error that says the units are mismatched and carries the
\* rendered left operand, the operator symbol and the rendered right operand.
C1_AddSubConformance ==
    \A op \in {"Add", "Sub"} :
        Evaluated(op) =>
            LET l == Eval(query.expr.left)
                r == Eval(query.expr.right)
            IN  (IsNumber(l) /\ IsNumber(r)) =>
                    IF l.val.num.unit = r.val.num.unit
                    THEN /\ IsNumber(result)
                         /\ result.val.num.unit = l.val.num.unit
                    ELSE /\ result.tag = "Err"
                         /\ result.err.msg \in MismatchText
                         /\ Has(result.err, "left") /\ result.err.left = Show(l.val)
                         /\ Has(result.err, "op")
                         /\ result.err.op = (IF op = "Add" THEN "+" ELSE "-")
                         /\ Has(result.err, "right") /\ result.err.right = Show(r.val)

\* a subtraction of two numbers of different unit vectors was evaluated
C1_Witness ==
    /\ Evaluated("Sub")
    /\ IsNumber(Eval(query.expr.left)) /\ IsNumber(Eval(query.expr.right))
    /\ Eval(query.expr.left).val.num.unit # Eval(query.expr.right).val.num.unit
    /\ Eval(query.expr.left).val.num.mag = Ratio(2, 1)
    /\ result.tag = "Err"

\* C9: subtraction does not commute over the tags: Num - Date is an error,
\* Date - Num is the timestamp moved back by the duration, and Date - Date is
\* a dimensioned number (the duration).
C9_SubDispatch ==
    Evaluated("Sub") =>
        LET l == Eval(query.expr.left)
            r == Eval(query.expr.right)
        IN  /\ (IsNumber(l) /\ IsDate(r)) => result.tag = "Err"
            /\ (IsDate(l) /\ IsNumber(r) /\ r.val.num.unit = SecondUnit
                    /\ l.val.at - r.val.num.mag.num \in -MaxTime..MaxTime) =>
                    result = Ok(DateTimeV(l.val.at - r.val.num.mag.num))
            /\ (IsDate(l) /\ IsDate(r)) =>
                    /\ IsNumber(result)
                    /\ result.val.num = Number(Ratio(l.val.at - r.val.at, 1), SecondUnit)

\* C10: a product with a timestamp operand evaluates to an error, and eval
\* returns a Value or an error, never a host panic, for every expression.
C10_MulNeverPanics ==
    pc = "evaluated" =>
        /\ result.tag \in {"Ok", "Err"}
        /\ (query.expr.e = "Mul"
            /\ \E i \in 1..Len(query.expr.args) : IsDate(Eval(query.expr.args[i])))
                => result.tag = "Err"

----------------------------------------------------------------------------
(* Claims about Context::lookup, checked under Spec.                       *)

LookedUp == pc = "looked up" /\ query.q = "Lookup"
IsDimension(n) == InSeq(n, dimensions)
IsUnit(n) == n \in DOMAIN units
IsAlias(n) == \E u \in DOMAIN aliases : aliases[u] = n
PluralResolves(n) == EndsWithS(n) /\ Lookup(StripLast(n)).tag = "Some"
\* the prefixes, by position, that start the name and leave a remainder
\* that resolves
ResolvingPrefixes(n) ==
    {i \in 1..Len(prefixes) :
        /\ StartsWith(n, prefixes[i][1])
        /\ Lookup(StripPrefix(n, prefixes[i][1])).tag = "Some"}
\* the magnitude of the i-th prefix times lookup(remainder)
Prefixed(n, i) ==
    LET v == Lookup(StripPrefix(n, prefixes[i][1])).val
        m == prefixes[i][2]
    IN  Number(MpqMul(v.mag, m.mag), UnitMerge(v.unit, m.unit))

\* C2: lookup returns the result of the first step that succeeds, in the
\* order base dimension, unit table, alias, plural strip, prefixes in
\* insertion order; not-found only when every step fails.
C2_LookupOrder ==
    LookedUp =>
        LET n == query.name
        IN  IF IsDimension(n) THEN result = Some(OneUnit(n))
            ELSE IF IsUnit(n) THEN result = Some(units[n])
            ELSE IF IsAlias(n)
                 THEN \E u \in DOMAIN aliases :
                        aliases[u] = n /\ result = Some(Number(MpqOne, u))
            ELSE IF PluralResolves(n) THEN result = Lookup(StripLast(n))
            ELSE IF ResolvingPrefixes(n) # {}
                 THEN \E i \in ResolvingPrefixes(n) :
                        /\ \A j \in ResolvingPrefixes(n) : i <= j
                        /\ result = Some(Prefixed(n, i))
            ELSE result = None

\* a name whose plural strip and whose prefix peel both resolve, to
\* different numbers, was looked up
C2_Witness ==
    /\ LookedUp
    /\ ~IsDimension(query.name) /\ ~IsUnit(query.name) /\ ~IsAlias(query.name)
    /\ PluralResolves(query.name)
    /\ \E i \in ResolvingPrefixes(query.name) :
            Some(Prefixed(query.name, i)) # Lookup(StripLast(query.name))
    /\ result.tag = "Some"

\* C3 as stated: for every prefix p of magnitude m and every u that resolves,
\* lookup(p ++ u) is m times lookup(u).
C3_PrefixAlways ==
    LookedUp =>
        \A i \in ResolvingPrefixes(query.name) :
            result = Some(Prefixed(query.name, i))

\* C3 amended: lookup(p ++ u) is m times lookup(u) when p ++ u is not resolved
\* by an earlier step (base dimension, unit table, alias, plural strip) and no
\* earlier prefix of the list starts p ++ u with a remainder that resolves.
C3_PrefixWhenFirst ==
    LookedUp =>
        LET n == query.name
        IN  \A i \in ResolvingPrefixes(n) :
                (/\ ~IsDimension(n) /\ ~IsUnit(n) /\ ~IsAlias(n)
                 /\ ~PluralResolves(n)
                 /\ \A j \in ResolvingPrefixes(n) : i <= j)
                    => result = Some(Prefixed(n, i))

\* a prefixed name was resolved through a prefix of magnitude other than 1
C3_Witness ==
    /\ LookedUp
    /\ ~IsDimension(query.name) /\ ~IsUnit(query.name) /\ ~IsAlias(query.name)
    /\ ~PluralResolves(query.name)
    /\ \E i \in ResolvingPrefixes(query.name) :
            /\ prefixes[i][2].mag # MpqOne
            /\ result = Some(Prefixed(query.name, i))

\* C4 as stated: for every u that does not end in "s" and resolves,
\* lookup(u ++ "s") is lookup(u).
C4_PluralAlways ==
    (LookedUp /\ EndsWithS(query.name)) =>
        LET u == StripLast(query.name)
        IN  (~EndsWithS(u) /\ Lookup(u).tag = "Some") => result = Lookup(u)

\* C4 amended: lookup(u ++ "s") is lookup(u) unless u ++ "s" is itself a base
\* dimension, an entry of the unit table or an alias.
C4_PluralUnlessDefined ==
    (LookedUp /\ EndsWithS(query.name)) =>
        LET n == query.name
            u == StripLast(query.name)
        IN  (/\ ~EndsWithS(u) /\ Lookup(u).tag = "Some"
             /\ ~IsDimension(n) /\ ~IsUnit(n) /\ ~IsAlias(n))
                => result = Lookup(u)

\* the plural of a resolving name, itself undefined, was looked up
C4_Witness ==
    /\ LookedUp /\ EndsWithS(query.name)
    /\ ~EndsWithS(StripLast(query.name))
    /\ Lookup(StripLast(query.name)).tag = "Some"
    /\ ~IsDimension(query.name) /\ ~IsUnit(query.name) /\ ~IsAlias(query.name)
    /\ result = Lookup(StripLast(query.name))

----------------------------------------------------------------------------
(* Claims about Context::load, checked under Spec.                         *)

\* C7: two loads of the same definitions into fresh environments build equal
\* units, aliases, reverse and definitions maps and the same prefixes list.
C7_LoadDeterminism ==
    (pc = "done" /\ round = 2) =>
        <<units, aliases, reverse, prefixes, definitions>>
            = <<first[2], first[3], first[4], first[5], first[6]>>

StackNames == [i \in 1..Len(stack) |-> stack[i].name]
SeqSet(s) == {s[i] : i \in 1..Len(s)}

RECURSIVE PendingWork(_)
\* the steps the visits of a set of unmarked entries still take at least
PendingWork(S) ==
    IF S = {} THEN 0
    ELSE LET n == CHOOSE n \in S : TRUE
         IN  Len(VisitItems(n)) + 2 + PendingWork(S \ {n})
RECURSIVE StackWork(_)
StackWork(i) ==
    IF i > Len(stack) THEN 0 ELSE Len(stack[i].items) + 1 + StackWork(i + 1)

Phase == CASE pc = "start" -> 3 [] pc = "sort" -> 2 [] pc = "interp" -> 1
           [] OTHER -> 0
Work == CASE pc = "sort" -> PendingWork(unmarked \ SeqSet(StackNames)) + StackWork(1)
          [] pc = "interp" -> Len(udefs)
          [] OTHER -> 0

\* a load never aborts, an entry in progress is on the stack once, and the
\* interpretation loop is handed every entry of the working map
C8_State ==
    /\ pc # "aborted"
    /\ NoDuplicates(StackNames)
    /\ temp_marks = SeqSet(StackNames)
    /\ pc \in {"start", "sort", "interp"} => ENABLED Load
    /\ pc = "interp" =>
        /\ NoDuplicates(sorted)
        /\ SeqSet(sorted) = DOMAIN input
        /\ \E k \in 0..Len(sorted) :
                udefs = [i \in 1..(Len(sorted) - k) |->
                            <<sorted[i + k], input[sorted[i + k]]>>]

\* every step of a load brings it nearer to its end, and a step that prints
\* a dependency cycle changes no mark and enters no entry
C8_Step ==
    /\ Load => \/ Phase' < Phase
               \/ Phase' = Phase /\ Work' < Work
    /\ (Len(warnings') = Len(warnings) + 1
        /\ warnings'[Len(warnings')].w = "dependency cycle") =>
            /\ warnings'[Len(warnings')].name \in temp_marks
            /\ UNCHANGED <<sorted, unmarked, temp_marks, input, ctx>>
            /\ Len(stack') = Len(stack)

\* C8: for every definition list, cycles included, load terminates without
\* aborting: a back edge to an entry in progress only prints a dependency
\* cycle warning, the entry is not entered again, and every entry of the
\* working map is handed to the interpretation loop.
C8_CyclesDoNotAbort == [](C8_State) /\ [][C8_Step]_vars


----------------------------------------------------------------------------
(* Claims about the temperature scales (SpecTemp).                         *)

\* both scales are usable: their units and zero points are defined, the
\* units have a magnitude, and all four share one unit vector
UsableScales(s, t) ==
    LET four == {ScaleUnit(s), ScaleBase(s), ScaleUnit(t), ScaleBase(t)}
    IN  /\ \A n \in four : Lookup(n).tag = "Some"
        /\ \A n \in four, m \in four : Lookup(n).val.unit = Lookup(m).val.unit
        /\ Lookup(ScaleUnit(s)).val.mag.num # 0
        /\ Lookup(ScaleUnit(t)).val.mag.num # 0

\* C5: for a dimensionless x and usable scales S and T, x written in S and
\* converted to T gives a number which, written in T and converted to S,
\* gives x again; converting to the scale x was written in gives x at once.
C5_TemperatureRoundTrip ==
    (query.q = "Convert" /\ Has(query, "x") /\ UsableScales(query.from, query.to)) =>
        /\ result.tag = "Ok"
        /\ (pc = "converted" /\ query.from = query.to) => result.val.number = query.x
        /\ pc = "converted back" => result.val.number = query.x

----------------------------------------------------------------------------
(* Claims about the list conversion (SpecList).                            *)

RECURSIVE ListSum(_, _, _)
\* out[1] * us[1].mag + ... + out[n] * us[n].mag
ListSum(out, us, n) ==
    IF n = 0 THEN MpqZero
    ELSE MpqAdd(ListSum(out, us, n - 1), MpqMul(out[n], us[n].mag))

\* the list is not empty, the left side is a number, and every unit of the
\* list is defined, has its unit vector and a magnitude
ListConforms ==
    /\ pc = "converted"
    /\ Has(query, "list")
    /\ query.list # <<>>
    /\ Eval(query.top).tag = "Ok"
    /\ Eval(query.top).val.tag = "Number"
    /\ \A i \in 1..Len(query.list) :
        /\ Lookup(query.list[i]).tag = "Some"
        /\ Lookup(query.list[i]).val.unit = Eval(query.top).val.num.unit
        /\ Lookup(query.list[i]).val.mag.num # 0

\* C6: converting a to a conforming list u1..un gives values v1..vn whose
\* sum of vi * ui.mag is a.mag; all but the last are integers and the last
\* is what is left, divided by un.mag.
C6_ListPreservesValue ==
    ListConforms =>
        /\ result.tag = "Ok"
        /\ LET a == Eval(query.top).val.num
               n == Len(query.list)
               us == [i \in 1..n |-> Lookup(query.list[i]).val]
               out == result.val.out
           IN  /\ Len(out) = n
               /\ \A i \in 1..(n - 1) : out[i].den = 1
               /\ ListSum(out, us, n) = a.mag
               /\ out[n] = MpqDiv(MpqSub(a.mag, ListSum(out, us, n - 1)), us[n].mag)

C6_Witness ==
    /\ ListConforms
    /\ result.tag = "Ok"
    /\ Len(result.val.out) = 2
    /\ Eval(query.top).val.num.mag.num < 0
    /\ result.val.out[1].num # 0
    /\ result.val.out[2].den # 1
    /\ ListSum(result.val.out,
               [i \in 1..2 |-> Lookup(query.list[i]).val], 2)
         = Eval(query.top).val.num.mag

----------------------------------------------------------------------------
(* Claims about symbolic conversions (SpecConvert).                        *)

\* a conversion was asked whose sides evaluate to numbers and whose right
\* side has an accepted unit-name map
ConvertCase ==
    /\ pc = "converted"
    /\ Has(query, "bottom")
    /\ IsNumber(Eval(query.top))
    /\ IsNumber(Eval(query.bottom))
    /\ EvalUnitName(query.bottom).tag = "Ok"

\* C11: a conversion a -> b of two numbers with an accepted name map succeeds,
\* with the number a.magnitude / b.magnitude, exactly when the unit vectors
\* are equal and b is not zero; differing vectors give a conformance error,
\* equal vectors and b zero a division-by-zero error.
C11_SymbolicConversion ==
    ConvertCase =>
        LET a == Eval(query.top).val.num
            b == Eval(query.bottom).val.num
        IN  /\ result.tag = "Ok" <=> (a.unit = b.unit /\ b.mag.num # 0)
            /\ result.tag = "Ok" => result.val.number = MpqDiv(a.mag, b.mag)
            /\ a.unit # b.unit =>
                    result.tag = "Err" /\ result.err.msg = "Conformance error"
            /\ (a.unit = b.unit /\ b.mag.num = 0) =>
                    result.tag = "Err" /\ result.err.msg = "Division by zero"

\* the unit vector T of a conversion a -> b: (unit of a) / (unit of b) is the
\* inverse of T
Missing == UnitMerge(Eval(query.bottom).val.num.unit,
                     UnitInvert(Eval(query.top).val.num.unit))

\* the vectors differ, T has an alias and the inverse of T has none
MissingAliased ==
    /\ ConvertCase
    /\ Eval(query.top).val.num.unit # Eval(query.bottom).val.num.unit
    /\ Missing \in DOMAIN aliases
    /\ UnitInvert(Missing) \notin DOMAIN aliases

Suggestion(word, side, name) == <<word, side, <<name>> >>

\* C12 as stated: the suggestions are "multiply right side by <alias of T>"
\* and "divide left side by <alias of T>".
C12_SuggestionsAsClaimed ==
    MissingAliased =>
        /\ result.tag = "Err"
        /\ result.err.msg = "Conformance error"
        /\ SeqSet(result.err.suggestions) =
            {Suggestion("multiply", "right side by", aliases[Missing]),
             Suggestion("divide", "left side by", aliases[Missing])}

\* a.b is not dimensionless, and the inverse of T has no aliased square root
NoOtherSuggestion ==
    /\ UnitMerge(Eval(query.top).val.num.unit, Eval(query.bottom).val.num.unit)
            # Dimensionless
    /\ UnitRoot2(UnitInvert(Missing)).tag = "Some" =>
            UnitRoot2(UnitInvert(Missing)).val \notin DOMAIN aliases

\* C12 amended: the suggestions are "multiply left side by <alias of T>" and
\* "divide right side by <alias of T>", in this order, when a.b is not
\* dimensionless and the inverse of T has no aliased square root.
C12_SuggestionsBySide ==
    (MissingAliased /\ NoOtherSuggestion) =>
        /\ result.tag = "Err"
        /\ result.err.msg = "Conformance error"
        /\ result.err.suggestions =
            <<Suggestion("multiply", "left side by", aliases[Missing]),
              Suggestion("divide", "right side by", aliases[Missing])>>

\* a length per duration is converted to a length: T is the duration
C12_Witness ==
    /\ MissingAliased /\ NoOtherSuggestion
    /\ query.top = EFrac(EUnit(NameA), EUnit(NameX))
    /\ query.bottom = EUnit(NameA)
    /\ aliases[Missing] = NameTime
    /\ result.tag = "Err"
    /\ result.err.suggestions[1] = Suggestion("multiply", "left side by", NameTime)

\* C13: a factorize query appends the marker ";  ..." exactly when the
\* deduplicated result list has more than ten entries.
C13_MarkerIffMoreThanTen ==
    (pc = "factorized" /\ result.tag = "Ok") =>
        (result.val.marker = ";  ..." <=> Len(Dedup(query.heap)) > 10)

\* the loader is at an entry whose expression does not evaluate to a number
EntryFails ==
    /\ pc = "interp" /\ udefs # <<>>
    /\ EntryDef.d \in {"Unit", "Prefix", "SPrefix", "Quantity"}
    /\ ~IsNumber(EntryValue)

\* C14: an entry whose evaluation fails or yields a timestamp leaves units,
\* prefixes, aliases, reverse and definitions as they were, adds one warning,
\* and the loader goes on with the remaining entries.
C14_FailedEntrySkipped ==
    [][EntryFails =>
        /\ UNCHANGED <<units, prefixes, aliases, reverse, definitions>>
        /\ Len(warnings') = Len(warnings) + 1
        /\ udefs' = Tail(udefs)
        /\ pc' = "interp"]_vars

\* the working-map entries the ladder resolves for the identifiers of entry n
Targets(n) ==
    {it.name : it \in {x \in SeqSet(VisitItems(n)) : x.item = "visit"}}

CycleWarned(t) ==
    \E i \in DOMAIN warnings :
        warnings[i].w = "dependency cycle" /\ warnings[i].name = t

\* C15: every entry the ladder resolved for an identifier of entry N comes
\* before N in the sorted order, unless it was in progress when it was
\* reached, and then a dependency-cycle warning names it. When the visit of N
\* ends, each of its targets is sorted already or still in progress.
C15_TargetsComeFirst ==
    /\ \A n \in DOMAIN sorted : \A t \in Targets(sorted[n]) :
            \/ \E m \in 1..(n - 1) : sorted[m] = t
            \/ /\ CycleWarned(t)
               /\ \A m \in 1..(n - 1) : sorted[m] # t
    /\ (pc = "sort" /\ stack # <<>> /\ Top.items = <<>>) =>
            \A t \in Targets(Top.name) :
                \/ t \in SeqSet(sorted)
                \/ t \in temp_marks /\ CycleWarned(t)

\* an entry resolved by a prefix peel is sorted after the prefix and the unit
C15_Witness ==
    /\ pc = "interp"
    /\ \E n \in DOMAIN sorted :
        /\ Cardinality(Targets(sorted[n])) = 2
        /\ \A t \in Targets(sorted[n]) : \E m \in 1..(n - 1) : sorted[m] = t

\* the load printed a dependency-cycle warning
CycleSeen == \E i \in DOMAIN warnings : warnings[i].w = "dependency cycle"

\* the names reported as unknown units of malformed definitions
UnknownUnits ==
    {warnings[i].err.name :
        i \in {j \in DOMAIN warnings : /\ warnings[j].w = "is malformed"
                                       /\ warnings[j].err.msg = "Unknown unit"}}

\* C16: the loader's ladder marks every entry Context.lookup reads, so that
\* after a load without cycles no name reported as an unknown unit of a
\* malformed definition is a name the loaded environment resolves.
C16_LaddersAgree ==
    (pc = "done" /\ ~CycleSeen) =>
        \A name \in UnknownUnits : Lookup(name).tag = "None"

\* the loader interprets a Quantity entry whose expression gives a number
QuantityInstalls == Interpreting("Quantity") /\ IsNumber(EntryValue)
\* the loader interprets a Unit entry whose expression gives a number
UnitInstalls == Interpreting("Unit") /\ IsNumber(EntryValue)

\* one step of the interpretation loop at a Quantity or a Unit
C17_Step ==
    /\ QuantityInstalls =>
            /\ \A n \in DOMAIN definitions :
                    n \in DOMAIN definitions' /\ definitions'[n] = definitions[n]
            /\ DOMAIN definitions' = DOMAIN definitions \cup {EntryName}
            /\ EntryName \notin DOMAIN definitions =>
                    definitions'[EntryName] = EntryDef.expr
            /\ aliases' = Put(aliases, EntryValue.val.num.unit, EntryName)
            /\ IF EntryValue.val.num.unit \in DOMAIN aliases
               THEN warnings' = Append(warnings,
                        [w |-> "Conflicting quantities", name |-> EntryName,
                         old |-> aliases[EntryValue.val.num.unit]])
               ELSE warnings' = warnings
    /\ UnitInstalls => definitions'[EntryName] = EntryDef.expr

\* the definition the load keeps for the Unit namespace entry n
UnitDefOf(n) ==
    LET I == {i \in DOMAIN defs : NameOf(defs[i][1], defs[i][2]) = NUnit(n)}
    IN  defs[CHOOSE i \in I : \A j \in I : j <= i][2]

\* the load defines n as a Unit and as a Quantity
SharedName(n) ==
    /\ \E i \in DOMAIN defs : NameOf(defs[i][1], defs[i][2]) = NUnit(n)
    /\ UnitDefOf(n).d = "Unit"
    /\ \E i \in DOMAIN defs : defs[i][1] = n /\ defs[i][2].d = "Quantity"

\* the loader warned that the Unit n is malformed or not a number
UnitFailed(n) ==
    \E i \in DOMAIN warnings :
        /\ warnings[i].w \in {"is malformed", "is not a number"}
        /\ warnings[i].def = "Unit" /\ warnings[i].name = n

\* every entry of the load has been interpreted
Loaded == pc = "done" \/ (pc = "interp" /\ udefs = <<>>)

DefinedNames == {defs[i][1] : i \in DOMAIN defs}

C17_UnitAlwaysWins ==
    Loaded => \A n \in DefinedNames :
        SharedName(n) =>
            n \in DOMAIN definitions /\ definitions[n] = UnitDefOf(n).expr

C17_UnitWins ==
    Loaded => \A n \in DefinedNames :
        (SharedName(n) /\ ~UnitFailed(n)) =>
            n \in DOMAIN definitions /\ definitions[n] = UnitDefOf(n).expr

\* C17 as stated: a Quantity entry leaves every existing definitions entry
\* alone and installs its expression only under a name without one, a Unit
\* entry installs its expression, the alias of the Quantity's unit vector
\* becomes the Quantity's name with a conflicting-quantities warning when it
\* replaces one; and a name shared by a Unit and a Quantity always ends with
\* the Unit's expression.
C17_AsClaimed == [][C17_Step]_vars /\ []C17_UnitAlwaysWins

\* C17 amended: the same, where a name shared by a Unit and a Quantity ends
\* with the Unit's expression when the Unit's expression evaluated to a
\* number.
C17_QuantityKeepsDefinition == [][C17_Step]_vars /\ []C17_UnitWins

\* the Quantity d was interpreted after the Unit d and left its expression
C17_Witness ==
    /\ pc = "interp" /\ udefs = <<>>
    /\ sorted = <<NQuantity(NameK), NUnit(NameD), NQuantity(NameD)>>
    /\ definitions[NameD] = EUnit(NameK)
    /\ aliases[Dimensionless] = NameD

\* eval_unit_name was asked for a power whose exponent is a dimensionless
\* number and whose base has a name map
PowerCase ==
    /\ pc = "named" /\ query.q = "UnitName" /\ query.expr.e = "Pow"
    /\ IsNumber(Eval(query.expr.right))
    /\ Eval(query.expr.right).val.num.unit = Dimensionless
    /\ EvalUnitName(query.expr.left).tag = "Ok"

\* C18: eval_unit_name returns an error for a power whose exponent is not an
\* integer, and for an integer exponent k it multiplies every exponent of the
\* base's name map by k and drops the entries that become zero.
C18_IntegerExponent ==
    PowerCase =>
        LET q == Eval(query.expr.right).val.num.mag
            base == EvalUnitName(query.expr.left).val
        IN  IF q.den # 1 THEN result.tag = "Err"
            ELSE result = Ok({<<p[1], p[2] * q.num>> :
                                p \in {x \in base : x[2] * q.num # 0}})

\* a symbolic conversion of a number to a dimensionless non-zero target
DimensionlessTarget ==
    /\ ConvertCase
    /\ Eval(query.top).val.num.unit = Dimensionless
    /\ Eval(query.bottom).val.num.unit = Dimensionless
    /\ Eval(query.bottom).val.num.mag # MpqZero

\* C19: describe_unit returns a (reciprocal, text) pair for every unit vector,
\* the empty one without an alias included, and a conversion to a
\* dimensionless target is rendered.
C19_DescribeTotal ==
    /\ (pc = "described" /\ query.q = "Describe") =>
            /\ result.tag = "Ok"
            /\ result.val[1] \in BOOLEAN
    /\ DimensionlessTarget => result.tag = "Ok"

\* C20: a definition lookup of a name that has a definition returns: the
\* chain of bare identifiers reaches a stopping name, also through a
\* self-definition or a loop, and the stopping name resolves through lookup, so
\* that the definition line is rendered.
C20_DefinitionLookupReturns ==
    (pc = "defined" /\ query.q = "Definition") =>
        /\ result.tag = "Ok"
        /\ result.val.name \in DOMAIN definitions
        /\ Lookup(result.val.name).tag = "Some"

====
